---- MODULE Spec2Model ----
(***************************************************************************)
(* cademeubau: the bus-position proxy.  Two variants of getData share the  *)
(* same pipeline (check cache, fetch upstream, normalise, store, fall back *)
(* to the stored value on failure):                                        *)
(*   - src/server.js (and its copy src/unnamed/part_000): the cache is the *)
(*     in-process DataCache object;                                        *)
(*   - src/api/index.js: the cache is the Redis key 'bus_data', written    *)
(*     with setEx(CACHE_DURATION).                                         *)
(* Every action below is one synchronous segment of the JavaScript code,   *)
(* from one await to the next: Node runs such a segment to completion      *)
(* before any other request handler runs.                                  *)
(* Spec is the behaviour of getData under concurrent requests; PureSpec    *)
(* applies processData, applyFilters and the processing loop on their own. *)
(***************************************************************************)
EXTENDS Integers, Sequences, FiniteSets, TLC

(***************************************************************************)
(* Bounds of the model.                                                    *)
(***************************************************************************)
NumInv == 2          \* number of GET /data requests in a behaviour
TickMs == 2500       \* milliseconds by which one Tick advances the clock
MaxNow == 30000      \* the clock stops advancing once it is here
StartNow == 20000    \* Date.now() when the process starts (> any window)
MaxRedisFaults == 2  \* Redis commands that fail in a behaviour
MaxList == 3         \* longest record list handed to applyFilters on its own

(***************************************************************************)
(* JavaScript values.  Every value is a record of the same shape so that   *)
(* any two of them can be compared: t is the type tag, n the number (or    *)
(* the sign of an infinity), s the characters of a string.                 *)
(***************************************************************************)
Undef == [t |-> "undef", n |-> 0, s |-> <<>>]
Null == [t |-> "null", n |-> 0, s |-> <<>>]
NaN == [t |-> "nan", n |-> 0, s |-> <<>>]
Num(k) == [t |-> "num", n |-> k, s |-> <<>>]
Inf(sign) == [t |-> "inf", n |-> sign, s |-> <<>>]
Str(chars) == [t |-> "str", n |-> 0, s |-> chars]

\* JavaScript truthiness, as used by !x, x || d and if (x)
Truthy(v) ==
  CASE v.t = "num" -> v.n # 0
    [] v.t = "str" -> v.s # <<>>
    [] v.t = "inf" -> TRUE
    [] OTHER -> FALSE

\* a || d
OrElse(v, d) == IF Truthy(v) THEN v ELSE d

Digits == {"0", "1", "2", "3", "4", "5", "6", "7", "8", "9"}

DigitVal(c) ==
  CASE c = "0" -> 0 [] c = "1" -> 1 [] c = "2" -> 2 [] c = "3" -> 3
    [] c = "4" -> 4 [] c = "5" -> 5 [] c = "6" -> 6 [] c = "7" -> 7
    [] c = "8" -> 8 [] c = "9" -> 9

InfinityChars == <<"I", "n", "f", "i", "n", "i", "t", "y">>

\* the longest prefix of s that consists of digits
RECURSIVE DigitPrefix(_)
DigitPrefix(s) ==
  IF s = <<>> \/ Head(s) \notin Digits THEN <<>>
  ELSE <<Head(s)>> \o DigitPrefix(Tail(s))

RECURSIVE DecValue(_, _)
DecValue(s, acc) ==
  IF s = <<>> THEN acc ELSE DecValue(Tail(s), 10 * acc + DigitVal(Head(s)))

HasPrefix(s, p) == Len(s) >= Len(p) /\ SubSeq(s, 1, Len(p)) = p

\* parseFloat of a string over the alphabet of the model (sign, digits,
\* letters): an optional sign, then "Infinity" or the longest run of digits;
\* whatever follows is ignored; NaN when neither is there.
ParseFloatStr(s) ==
  LET neg == s # <<>> /\ Head(s) = "-"
      signed == s # <<>> /\ Head(s) \in {"-", "+"}
      rest == IF signed THEN Tail(s) ELSE s
      sign == IF neg THEN -1 ELSE 1
      d == DigitPrefix(rest)
  IN  IF HasPrefix(rest, InfinityChars) THEN Inf(sign)
      ELSE IF d = <<>> THEN NaN
      ELSE Num(sign * DecValue(d, 0))

\* parseFloat(v): the argument is converted to a string first, so a number
\* parses to itself and undefined/null to NaN
parseFloat(v) ==
  CASE v.t = "str" -> ParseFloatStr(v.s)
    [] v.t = "num" -> v
    [] v.t = "inf" -> v
    [] OTHER -> NaN

isNaN(v) == v.t = "nan"

(***************************************************************************)
(* Raw vehicles and processed records.  A raw vehicle is                   *)
(*   kind : "obj", or "null" for a null array element;                     *)
(*   loc  : "absent" | "null" | "obj", the localizacao property;           *)
(*   lat, lng : localizacao.latitude / .longitude (Undef when absent);     *)
(*   f    : the other own properties, Undef for a key the object lacks     *)
(*          (an object parsed from JSON never holds undefined).            *)
(* FieldKeys are the keys a raw vehicle of the model may carry besides     *)
(* localizacao: the three the code names, one it does not (horario), the   *)
(* two it leaves out of the copy, and one that collides with a key the     *)
(* code computes (GPS_Latitude).                                           *)
(***************************************************************************)
FieldKeys ==
  {"numero", "linha", "direcao", "horario", "latitude", "longitude", "GPS_Latitude"}
RecKeys == {"GPS_Latitude", "GPS_Longitude", "numero", "linha", "direcao", "horario"}

NoFields == [k \in FieldKeys |-> Undef]
NoRecord == [k \in RecKeys |-> Undef]

Vehicle(loc, lat, lng, f) == [kind |-> "obj", loc |-> loc, lat |-> lat, lng |-> lng, f |-> f]
NullVehicle == [kind |-> "null", loc |-> "absent", lat |-> Undef, lng |-> Undef, f |-> NoFields]

\* processData(vehicle): [tag |-> "rec", r |-> record], [tag |-> "null"]
\* for a rejected vehicle, [tag |-> "throw"] for the TypeError of reading a
\* property of null.
processData(vehicle) ==
  IF vehicle.kind = "null" THEN [tag |-> "throw", r |-> NoRecord]
  ELSE IF vehicle.loc # "obj" THEN [tag |-> "null", r |-> NoRecord]
  ELSE IF ~Truthy(vehicle.lat) \/ ~Truthy(vehicle.lng)
          \/ vehicle.lat = Str(<<>>) \/ vehicle.lng = Str(<<>>)
       THEN [tag |-> "null", r |-> NoRecord]
  ELSE LET lat == parseFloat(vehicle.lat)
           lng == parseFloat(vehicle.lng)
       IN  IF isNaN(lat) \/ isNaN(lng) THEN [tag |-> "null", r |-> NoRecord]
           ELSE [tag |-> "rec",
                 r |-> [k \in RecKeys |->
                   \* the spread of the remaining keys comes last and wins
                   IF k \in (FieldKeys \ {"latitude", "longitude"}) /\ vehicle.f[k] # Undef
                   THEN vehicle.f[k]
                   ELSE CASE k = "GPS_Latitude" -> lat
                          [] k = "GPS_Longitude" -> lng
                          [] k = "numero" -> OrElse(vehicle.f["numero"], Str(<<>>))
                          [] k = "linha" -> OrElse(vehicle.f["linha"], Str(<<>>))
                          [] k = "direcao" -> OrElse(vehicle.f["direcao"], Num(0))
                          [] OTHER -> Undef]]

(***************************************************************************)
(* The upstream body.  An operator entry is an object (kind "obj") whose   *)
(* veiculos property is absent, an array or something else; or null; or a  *)
(* primitive (a number, or one character of a string body).  A body is an  *)
(* array of entries, a string (for...of walks its characters), or a value  *)
(* that is not iterable (null, a number, a plain object).                  *)
(***************************************************************************)
Operadora(vs) == [kind |-> "obj", veic |-> "array", vs |-> vs]
OperadoraNoList == [kind |-> "obj", veic |-> "absent", vs |-> <<>>]
NullEntry == [kind |-> "null", veic |-> "absent", vs |-> <<>>]
PrimEntry == [kind |-> "prim", veic |-> "absent", vs |-> <<>>]

ArrayBody(ops) == [kind |-> "array", ops |-> ops]
StringBody(len) == [kind |-> "str", ops |-> [i \in 1..len |-> PrimEntry]]
NullBody == [kind |-> "null", ops |-> <<>>]

\* a body that is an array whose entries are all objects
IsOperatorArray(body) ==
  body.kind = "array" /\ \A k \in 1..Len(body.ops) : body.ops[k].kind = "obj"

\* history: how the body of a success response is recorded
BodyShape(body) == IF IsOperatorArray(body) THEN "operators" ELSE "other"

FILTER == FALSE

allowedLines ==
  { Str(<<"0", ".", "1", "9", "5">>), Str(<<"1", "4", "7", ".", "5">>),
    Str(<<"1", "4", "7", ".", "6">>), Str(<<"1", "8", "0", ".", "1">>),
    Str(<<"1", "8", "0", ".", "2">>), Str(<<"1", "8", "1", ".", "2">>),
    Str(<<"1", "8", "1", ".", "4">>), Str(<<"8", "0", "0", "2">>),
    Str(<<"1", "0", "6", ".", "2">>), Str(<<"0", ".", "1", "4", "7">>),
    Str(<<"2", "2", "0", "7">>), Str(<<"2", "2", "0", "9">>) }

\* mutant: the records of the allowed lines, in reverse order
applyFilters_reversed(data) ==
  LET allowed(rec) == rec["linha"] \in allowedLines
      kept == SelectSeq(data, allowed)
  IN  [k \in 1..Len(kept) |-> kept[Len(kept) + 1 - k]]

\* data.filter(v => allowedLines.includes(v.linha)); SelectSeq keeps the order
applyFilters(data) ==
  LET allowed(rec) == rec["linha"] \in allowedLines
  IN  SelectSeq(data, allowed)

\* operadora.veiculos.map(vehicle => processData(vehicle)) for the entries
\* in order, concatenated; "throw" as soon as an entry or a vehicle is null
RECURSIVE MapVehicles(_)
MapVehicles(vs) ==
  IF vs = <<>> THEN [ok |-> TRUE, data |-> <<>>]
  ELSE LET p == processData(Head(vs))
           rest == MapVehicles(Tail(vs))
       IN  IF p.tag = "throw" \/ ~rest.ok THEN [ok |-> FALSE, data |-> <<>>]
           ELSE [ok |-> TRUE, data |-> <<p>> \o rest.data]

RECURSIVE ConcatOperadoras(_)
ConcatOperadoras(ops) ==
  IF ops = <<>> THEN [ok |-> TRUE, data |-> <<>>]
  ELSE LET op == Head(ops)
           mine == IF op.kind = "obj" /\ op.veic = "array" THEN MapVehicles(op.vs)
                   ELSE [ok |-> op.kind # "null", data |-> <<>>]
           rest == ConcatOperadoras(Tail(ops))
       IN  IF ~mine.ok \/ ~rest.ok THEN [ok |-> FALSE, data |-> <<>>]
           ELSE [ok |-> TRUE, data |-> mine.data \o rest.data]

\* the processing of getData between the body and the cache write:
\* [ok |-> TRUE, data |-> records], or ok = FALSE when it throws
ProcessBody(body) ==
  IF body.kind \notin {"array", "str"} THEN [ok |-> FALSE, data |-> <<>>]
  ELSE LET all == ConcatOperadoras(body.ops)
           notNull(p) == p.tag # "null"
           recs == SelectSeq(all.data, notNull)
           processedData == [i \in 1..Len(recs) |-> recs[i].r]
       IN  IF ~all.ok THEN [ok |-> FALSE, data |-> <<>>]
           ELSE [ok |-> TRUE,
                 data |-> IF FILTER THEN applyFilters(processedData) ELSE processedData]

(***************************************************************************)
(* JSON.stringify / JSON.parse of a record list (the Redis value).  A      *)
(* non-finite number is written as null and a key holding undefined is     *)
(* left out; the text is modelled by the value it denotes.                 *)
(***************************************************************************)
JsonValue(v) == IF v.t \in {"inf", "nan"} THEN Null ELSE v

JSONstringify(data) ==
  [text |-> [i \in 1..Len(data) |-> [k \in RecKeys |-> JsonValue(data[i][k])]]]

JSONparse(str) == str.text

(***************************************************************************)
(* The upstream bodies and outcomes of the model.                          *)
(***************************************************************************)
VehicleA ==
  Vehicle("obj", Str(<<"-", "1", "5">>), Str(<<"-", "4", "7">>),
          [NoFields EXCEPT !["numero"] = Str(<<"1", "2", "3">>),
                           !["linha"] = Str(<<"2", "2", "0", "7">>)])
VehicleB ==
  Vehicle("obj", Num(10), Num(20),
          [NoFields EXCEPT !["numero"] = Str(<<"7">>),
                           !["linha"] = Str(<<"1", "8", "0", ".", "1">>),
                           !["direcao"] = Num(90),
                           !["horario"] = Str(<<"9", "h">>)])
VehicleNoLoc == Vehicle("absent", Undef, Undef, NoFields)
VehicleInf ==
  Vehicle("obj", Str(InfinityChars), Num(3),
          [NoFields EXCEPT !["numero"] = Str(<<"9">>)])

BodyA == ArrayBody(<<OperadoraNoList, Operadora(<<VehicleA, VehicleNoLoc>>), Operadora(<<VehicleB>>)>>)
BodyInf == ArrayBody(<<Operadora(<<VehicleInf>>)>>)
BodyEmpty == ArrayBody(<<>>)
BodyString == StringBody(2)   \* the JSON text "ab"

Bodies == {BodyA, BodyInf, BodyEmpty, BodyString, NullBody}

\* what the upstream does with one request: the fetch rejects (transport),
\* the status is not ok (http), the body is not JSON (decode), or a body
Outcomes ==
  {[kind |-> k, body |-> NullBody] : k \in {"transport", "http", "decode"}}
    \cup {[kind |-> "ok", body |-> b] : b \in Bodies}

(***************************************************************************)
(* State.                                                                  *)
(***************************************************************************)
VARIABLES
  variant,   \* "mem": src/server.js; "redis": src/api/index.js; "pair": both, same events
  now,       \* Date.now(), in milliseconds
  cache,     \* the DataCache object of src/server.js
  minv,      \* the GET /data requests of src/server.js
  mhist,     \* history: the last cache write (by, at, last), requests sent
  redis,     \* the module variable redis of src/api/index.js: TRUE once connected
  rkey,      \* the Redis key 'bus_data'
  rinv,      \* the GET /data requests of src/api/index.js
  rhist,     \* history: the last setEx (by, at, last), requests sent, failed commands
  call       \* one call of processData, applyFilters or the processing loop on its own

memVars == <<cache, minv, mhist>>
redisVars == <<redis, rkey, rinv, rhist>>
vars == <<variant, now, cache, minv, mhist, redis, rkey, rinv, rhist, call>>

Inv == 1..NumInv

DefaultCacheSeconds == 5
CACHE_DURATION == 10

Nothing == [set |-> FALSE, v |-> <<>>]
Some(d) == [set |-> TRUE, v |-> d]

NoErr == [kind |-> "none", message |-> ""]
NoOut == [kind |-> "none", data |-> <<>>, err |-> NoErr]
Returned(d) == [kind |-> "value", data |-> d, err |-> NoErr]
Thrown(e) == [kind |-> "throw", data |-> <<>>, err |-> e]

NoResp == [status |-> 0, body |-> <<>>, error |-> ""]

\* one GET /data request: where it is (pc), what getData gave (out), what
\* the handler sent (resp); for the Redis variant the error caught (err)
\* and the records waiting for setEx (pending); the rest is history
NewInv ==
  [pc |-> "idle", out |-> NoOut, resp |-> NoResp, err |-> NoErr, pending |-> <<>>,
   hit |-> FALSE,      \* the cache check found a value to serve
   reqs |-> 0,         \* upstream requests issued
   norms |-> 0,        \* runs of the processing loop
   writes |-> 0,       \* cache writes
   up |-> "none",      \* how its upstream request ended: "ok", the way the fetch
                       \* failed, or "type" when the processing threw
   inflight |-> 0,     \* (in memory) requests of others in flight when it sent its own
   reqNo |-> 0,        \* the position of its upstream request among those issued
   shape |-> "none",   \* the body of a success response: "operators" or "other"
   freshOf |-> 0]      \* the request in whose freshness window it checked the cache

(***************************************************************************)
(* class DataCache (src/server.js)                                         *)
(***************************************************************************)
DataCache(cacheDuration) ==
  [data |-> Nothing, timestamp |-> 0, cacheDuration |-> cacheDuration * 1000]

\* mutant: the age test the wrong way round
isValid_olderThanWindow(c, t) == c.data.set /\ (t - c.timestamp) > c.cacheDuration

isValid(c, t) == c.data.set /\ (t - c.timestamp) < c.cacheDuration

get(c) == c.data.v

\* mutant: the data is replaced but the timestamp is left as it was
set_dataOnly(c, data, t) == [c EXCEPT !.data = Some(data)]

set(c, data, t) == [c EXCEPT !.data = Some(data), !.timestamp = t]

(***************************************************************************)
(* The GET /data handler: res.json(data), or the fixed error body.         *)
(***************************************************************************)
FailedMessage == "Failed to fetch bus data"

SendJson(data) == [status |-> 200, body |-> JSONstringify(data).text, error |-> ""]

\* mutant: the caught error's message is sent to the client
SendError_withMessage(status, error) ==
  [status |-> status, body |-> <<>>, error |-> error.message]

SendError(status, error) == [status |-> status, body |-> <<>>, error |-> FailedMessage]

\* the Error objects: what fetch / response.json() reject with, and what
\* the code throws for a status that is not ok
UpstreamError(kind, isRedis) ==
  CASE kind = "transport" -> [kind |-> "transport", message |-> "fetch failed"]
    [] kind = "http" ->
         [kind |-> "http",
          message |-> IF isRedis THEN "Upstream error 503 Service Unavailable: <html>"
                      ELSE "HTTP error! status: 503"]
    [] kind = "decode" -> [kind |-> "decode", message |-> "Unexpected token < in JSON"]

TypeError == [kind |-> "type", message |-> "body is not iterable"]
RedisError == [kind |-> "redis", message |-> "Connection is closed"]

\* a call of one of the pure functions on its own: the function, its
\* argument (vehicle, data or body) and, once it has returned, its result
\* (rec for processData, out for the two that give a list)
NoCall ==
  [fn |-> "none", vehicle |-> NullVehicle, data |-> <<>>, body |-> NullBody,
   returned |-> FALSE, rec |-> [tag |-> "null", r |-> NoRecord],
   out |-> [ok |-> FALSE, data |-> <<>>]]

Init ==
  /\ variant \in {"mem", "redis", "pair"}
  /\ now = StartNow
  \* new DataCache(5); the paired run gives it the window of the Redis variant
  /\ cache = DataCache(IF variant = "pair" THEN CACHE_DURATION ELSE DefaultCacheSeconds)
  /\ minv = [i \in Inv |-> NewInv]
  /\ mhist = [by |-> 0, at |-> 0, last |-> Nothing, sent |-> 0]
  /\ redis = FALSE
  /\ rkey = [present |-> FALSE, value |-> JSONstringify(<<>>), expireAt |-> 0]
  /\ rinv = [i \in Inv |-> NewInv]
  /\ rhist = [by |-> 0, at |-> 0, last |-> Nothing, sent |-> 0, faults |-> 0]
  /\ call = NoCall

(***************************************************************************)
(* src/server.js: getData with the in-memory cache                         *)
(***************************************************************************)
\* history: the request whose cache write is less than the window old
MFreshOf ==
  IF mhist.by # 0 /\ now - mhist.at < cache.cacheDuration THEN mhist.by ELSE 0

\* mutant: single flight, a miss waits for a request already in flight
\* instead of issuing its own
MemStart_singleFlight(i) ==
  /\ minv[i].pc = "idle"
  /\ \A j \in Inv : j < i => minv[j].pc # "idle"
  /\ LET shared == \E j \in Inv : minv[j].pc = "fetch"
     IN  /\ minv' = [minv EXCEPT ![i] =
              [@ EXCEPT !.pc = IF isValid(cache, now) THEN "done" ELSE "fetch",
                        !.hit = isValid(cache, now), !.freshOf = MFreshOf,
                        !.reqs = IF isValid(cache, now) \/ shared THEN @ ELSE @ + 1,
                        !.out = IF isValid(cache, now) THEN Returned(get(cache)) ELSE @,
                        !.resp = IF isValid(cache, now) THEN SendJson(get(cache)) ELSE @]]
         /\ mhist' = [mhist EXCEPT !.sent =
              IF isValid(cache, now) \/ shared THEN @ ELSE @ + 1]
  /\ UNCHANGED cache

\* a request arrives: the handler calls getData, which serves a valid cache
\* or issues the upstream request and waits
MemStart(i) ==
  /\ minv[i].pc = "idle"
  /\ \A j \in Inv : j < i => minv[j].pc # "idle"
  /\ IF isValid(cache, now)
     THEN /\ minv' = [minv EXCEPT ![i] =
               [@ EXCEPT !.pc = "done", !.hit = TRUE, !.freshOf = MFreshOf,
                         !.out = Returned(get(cache)),
                         !.resp = SendJson(get(cache))]]
          /\ UNCHANGED mhist
     ELSE /\ minv' = [minv EXCEPT ![i] =
               [@ EXCEPT !.pc = "fetch", !.reqs = @ + 1, !.freshOf = MFreshOf,
                         !.reqNo = mhist.sent + 1,
                         !.inflight = Cardinality({j \in Inv : minv[j].pc = "fetch"})]]
          /\ mhist' = [mhist EXCEPT !.sent = @ + 1]
  /\ UNCHANGED cache

\* mutant: an empty list instead of the failure when nothing is cached
MemCatch_emptyList(i, error, upKind, shape) ==
  /\ minv' = [minv EXCEPT ![i] =
       [@ EXCEPT !.pc = "done", !.up = upKind, !.shape = shape,
                 !.norms = IF upKind = "type" THEN @ + 1 ELSE @,
                 !.out = Returned(get(cache)),
                 !.resp = SendJson(get(cache))]]
  /\ UNCHANGED <<cache, mhist>>

\* mutant: serving the stale records renews their timestamp
MemCatch_renewsFreshness(i, error, upKind, shape) ==
  /\ minv' = [minv EXCEPT ![i] =
       [@ EXCEPT !.pc = "done", !.up = upKind, !.shape = shape,
                 !.norms = IF upKind = "type" THEN @ + 1 ELSE @,
                 !.out = IF cache.data.set THEN Returned(get(cache)) ELSE Thrown(error),
                 !.resp = IF cache.data.set THEN SendJson(get(cache))
                          ELSE SendError(500, error)]]
  /\ cache' = IF cache.data.set THEN [cache EXCEPT !.timestamp = now] ELSE cache
  /\ UNCHANGED mhist

\* the catch block of getData, then the handler (shape is history only)
MemCatch(i, error, upKind, shape) ==
  /\ minv' = [minv EXCEPT ![i] =
       [@ EXCEPT !.pc = "done", !.up = upKind, !.shape = shape,
                 !.norms = IF upKind = "type" THEN @ + 1 ELSE @,
                 !.out = IF cache.data.set THEN Returned(get(cache)) ELSE Thrown(error),
                 !.resp = IF cache.data.set THEN SendJson(get(cache))
                          ELSE SendError(500, error)]]
  /\ UNCHANGED <<cache, mhist>>

\* mutant: a failed request is tried a second time
MemRespond_retryOnce(i, o) ==
  /\ minv[i].pc = "fetch"
  /\ IF o.kind # "ok"
     THEN IF minv[i].reqs < 2
          THEN /\ minv' = [minv EXCEPT ![i].reqs = @ + 1]
               /\ mhist' = [mhist EXCEPT !.sent = @ + 1]
               /\ UNCHANGED cache
          ELSE MemCatch(i, UpstreamError(o.kind, FALSE), o.kind, "none")
     ELSE LET p == ProcessBody(o.body)
          IN  IF ~p.ok THEN MemCatch(i, TypeError, "type", BodyShape(o.body))
              ELSE /\ cache' = set(cache, p.data, now)
                   /\ mhist' = [mhist EXCEPT !.by = i, !.at = now, !.last = Some(p.data)]
                   /\ minv' = [minv EXCEPT ![i] =
                        [@ EXCEPT !.pc = "done", !.up = "ok", !.norms = @ + 1,
                                  !.shape = BodyShape(o.body),
                                  !.writes = @ + 1,
                                  !.out = Returned(p.data),
                                  !.resp = SendJson(p.data)]]

\* the upstream answers: on a good body the records are built, stored and
\* returned; otherwise the catch block runs
MemRespond(i, o) ==
  /\ minv[i].pc = "fetch"
  /\ IF o.kind # "ok" THEN MemCatch(i, UpstreamError(o.kind, FALSE), o.kind, "none")
     ELSE LET p == ProcessBody(o.body)
          IN  IF ~p.ok THEN MemCatch(i, TypeError, "type", BodyShape(o.body))
              ELSE /\ cache' = set(cache, p.data, now)
                   /\ mhist' = [mhist EXCEPT !.by = i, !.at = now, !.last = Some(p.data)]
                   /\ minv' = [minv EXCEPT ![i] =
                        [@ EXCEPT !.pc = "done", !.up = "ok", !.norms = @ + 1,
                                  !.shape = BodyShape(o.body),
                                  !.writes = @ + 1,
                                  !.out = Returned(p.data),
                                  !.resp = SendJson(p.data)]]

(***************************************************************************)
(* src/api/index.js: getData with the Redis key 'bus_data'                  *)
(***************************************************************************)
NoKey == [present |-> FALSE, value |-> JSONstringify(<<>>), expireAt |-> 0]

\* SETEX key seconds value: the value and its time to live, in one command
setEx(seconds, value, t) ==
  [present |-> TRUE, value |-> value, expireAt |-> t + seconds * 1000]

\* Redis deletes a key whose time to live has run out
Expire(key, t) == IF key.present /\ t >= key.expireAt THEN NoKey ELSE key

\* history: the request whose setEx is less than the time to live old
RFreshOf ==
  IF rhist.by # 0 /\ now < rhist.at + CACHE_DURATION * 1000 THEN rhist.by ELSE 0

CanFail == rhist.faults < MaxRedisFaults

\* catch (error) of getData: it calls initRedis() again, which connects
\* when the module variable is still unset, then reads the key
EnterCatch(r, error) ==
  [r EXCEPT !.err = error, !.pc = IF redis THEN "cget" ELSE "cinit"]

\* the end of getData and the handler's response
RedisReturn(r, data) ==
  [r EXCEPT !.pc = "done", !.out = Returned(data), !.resp = SendJson(data)]

RedisThrow(r, error) ==
  [r EXCEPT !.pc = "done", !.out = Thrown(error), !.resp = SendError(502, error)]

\* a request arrives: getData calls initRedis(), which connects unless the
\* client exists, in which case the GET command goes out
RedisStart(i) ==
  /\ rinv[i].pc = "idle"
  /\ \A j \in Inv : j < i => rinv[j].pc # "idle"
  /\ rinv' = [rinv EXCEPT ![i] =
       [@ EXCEPT !.pc = IF redis THEN "get" ELSE "init"]]
  /\ UNCHANGED <<redis, rkey, rhist>>

\* connect() settles, in the try block (init) or in the catch block (cinit)
RedisConnected(i, ok) ==
  /\ rinv[i].pc \in {"init", "cinit"}
  /\ IF ok
     THEN /\ redis' = TRUE
          /\ rinv' = [rinv EXCEPT ![i].pc = IF @ = "init" THEN "get" ELSE "cget"]
          /\ UNCHANGED <<rkey, rhist>>
     ELSE /\ CanFail
          /\ rhist' = [rhist EXCEPT !.faults = @ + 1]
          /\ rinv' = [rinv EXCEPT ![i] =
               IF @.pc = "init" THEN EnterCatch(@, RedisError)
               ELSE RedisThrow(@, @.err)]
          /\ UNCHANGED <<redis, rkey>>

\* client.get('bus_data') settles: a hit returns the parsed value, a miss
\* issues the upstream request, a failure goes to the catch block
RedisGot(i, ok) ==
  /\ rinv[i].pc = "get"
  /\ IF ~ok
     THEN /\ CanFail
          /\ rhist' = [rhist EXCEPT !.faults = @ + 1]
          /\ rinv' = [rinv EXCEPT ![i] = EnterCatch(@, RedisError)]
     ELSE /\ rinv' = [rinv EXCEPT ![i] =
               IF rkey.present
               THEN RedisReturn([@ EXCEPT !.hit = TRUE, !.freshOf = RFreshOf],
                                JSONparse(rkey.value))
               ELSE [@ EXCEPT !.pc = "fetch", !.reqs = @ + 1, !.freshOf = RFreshOf,
                              !.reqNo = rhist.sent + 1]]
          /\ rhist' = IF rkey.present THEN rhist ELSE [rhist EXCEPT !.sent = @ + 1]
  /\ UNCHANGED <<redis, rkey>>

\* fetchJSON settles: on a good body the records are built and setEx goes
\* out; otherwise the catch block runs
RedisRespond(i, o) ==
  /\ rinv[i].pc = "fetch"
  /\ rinv' = [rinv EXCEPT ![i] =
       IF o.kind # "ok" THEN EnterCatch([@ EXCEPT !.up = o.kind], UpstreamError(o.kind, TRUE))
       ELSE LET p == ProcessBody(o.body)
            IN  IF ~p.ok
                THEN EnterCatch([@ EXCEPT !.up = "type", !.norms = @ + 1,
                                          !.shape = BodyShape(o.body)], TypeError)
                ELSE [@ EXCEPT !.up = "ok", !.norms = @ + 1, !.pc = "setex",
                               !.shape = BodyShape(o.body), !.pending = p.data]]
  /\ UNCHANGED <<redis, rkey, rhist>>

\* client.setEx settles: the key is written and the records are returned,
\* or the catch block runs
RedisSetExDone(i, ok) ==
  /\ rinv[i].pc = "setex"
  /\ IF ok
     THEN /\ rkey' = setEx(CACHE_DURATION, JSONstringify(rinv[i].pending), now)
          /\ rhist' = [rhist EXCEPT !.by = i, !.at = now, !.last = Some(rinv[i].pending)]
          /\ rinv' = [rinv EXCEPT ![i] =
               RedisReturn([@ EXCEPT !.writes = @ + 1], @.pending)]
     ELSE /\ CanFail
          /\ rhist' = [rhist EXCEPT !.faults = @ + 1]
          /\ rinv' = [rinv EXCEPT ![i] = EnterCatch(@, RedisError)]
          /\ UNCHANGED rkey
  /\ UNCHANGED redis

\* mutant: a failed read of the catch block throws its own error
RedisStaleGot_throwsCacheError(i, ok) ==
  /\ rinv[i].pc = "cget"
  /\ IF ok
     THEN /\ rinv' = [rinv EXCEPT ![i] =
               IF rkey.present THEN RedisReturn(@, JSONparse(rkey.value))
               ELSE RedisThrow(@, @.err)]
          /\ UNCHANGED rhist
     ELSE /\ CanFail
          /\ rhist' = [rhist EXCEPT !.faults = @ + 1]
          /\ rinv' = [rinv EXCEPT ![i] = RedisThrow(@, RedisError)]
  /\ UNCHANGED <<redis, rkey>>

\* client.get('bus_data') of the catch block settles: a value is returned
\* as stale data; without one, or when the read fails, the first error is
\* thrown
RedisStaleGot(i, ok) ==
  /\ rinv[i].pc = "cget"
  /\ IF ok
     THEN /\ rinv' = [rinv EXCEPT ![i] =
               IF rkey.present THEN RedisReturn(@, JSONparse(rkey.value))
               ELSE RedisThrow(@, @.err)]
          /\ UNCHANGED rhist
     ELSE /\ CanFail
          /\ rhist' = [rhist EXCEPT !.faults = @ + 1]
          /\ rinv' = [rinv EXCEPT ![i] = RedisThrow(@, @.err)]
  /\ UNCHANGED <<redis, rkey>>

\* time passes; Redis drops the key when its time to live is over.  The
\* code reads the clock only against the time of the last write (isValid,
\* the expiry of the key), so the clock is left at StartNow until a write
\* has happened: the runs before it differ by a shift of time only.
Tick ==
  /\ now < MaxNow
  /\ mhist.by # 0 \/ rhist.by # 0
  /\ \E i \in Inv : minv[i].pc # "done" /\ rinv[i].pc # "done"
  /\ now' = now + TickMs
  /\ rkey' = Expire(rkey, now')
  /\ UNCHANGED <<variant, cache, minv, mhist, redis, rinv, rhist, call>>

\* what a step of one variant leaves alone
memOnly == <<variant, now, redis, rkey, rinv, rhist, call>>
redisOnly == <<variant, now, cache, minv, mhist, call>>

\* "pair" runs both variants under the same arrivals, upstream outcomes and
\* clock: an event is delivered when no Redis command is outstanding, and
\* Redis never fails
Quiescent == \A i \in Inv : rinv[i].pc \in {"idle", "fetch", "done"}

Next ==
  \/ variant = "mem" /\ (\E i \in Inv : MemStart(i)) /\ UNCHANGED memOnly
  \/ variant = "mem" /\ (\E i \in Inv, o \in Outcomes : MemRespond(i, o)) /\ UNCHANGED memOnly
  \/ variant = "redis" /\ (\E i \in Inv : RedisStart(i)) /\ UNCHANGED redisOnly
  \/ variant = "redis" /\ (\E i \in Inv, ok \in BOOLEAN : RedisConnected(i, ok))
       /\ UNCHANGED redisOnly
  \/ variant = "redis" /\ (\E i \in Inv, ok \in BOOLEAN : RedisGot(i, ok))
       /\ UNCHANGED redisOnly
  \/ variant = "redis" /\ (\E i \in Inv, o \in Outcomes : RedisRespond(i, o))
       /\ UNCHANGED redisOnly
  \/ variant = "redis" /\ (\E i \in Inv, ok \in BOOLEAN : RedisSetExDone(i, ok))
       /\ UNCHANGED redisOnly
  \/ variant = "redis" /\ (\E i \in Inv, ok \in BOOLEAN : RedisStaleGot(i, ok))
       /\ UNCHANGED redisOnly
  \/ variant = "pair" /\ Quiescent /\ (\E i \in Inv : MemStart(i) /\ RedisStart(i))
       /\ UNCHANGED <<variant, now, call>>
  \/ variant = "pair" /\ Quiescent
       /\ (\E i \in Inv, o \in Outcomes : MemRespond(i, o) /\ RedisRespond(i, o))
       /\ UNCHANGED <<variant, now, call>>
  \/ variant = "pair" /\ (\E i \in Inv : RedisConnected(i, TRUE)) /\ UNCHANGED redisOnly
  \/ variant = "pair" /\ (\E i \in Inv : RedisGot(i, TRUE)) /\ UNCHANGED redisOnly
  \/ variant = "pair" /\ (\E i \in Inv : RedisSetExDone(i, TRUE)) /\ UNCHANGED redisOnly
  \/ variant = "pair" /\ (\E i \in Inv : RedisStaleGot(i, TRUE)) /\ UNCHANGED redisOnly
  \/ (variant = "pair" => Quiescent) /\ Tick

Spec == Init /\ [][Next]_vars

(***************************************************************************)
(* The pure functions on their own: processData, applyFilters and the      *)
(* processing loop of getData are each called once, on an argument drawn   *)
(* from the sets below.                                                    *)
(***************************************************************************)
\* what localizacao.latitude / .longitude may hold: absent, null, numbers
\* (1e999 in the JSON text is read as Infinity), strings
CoordValues ==
  { Undef, Null, Num(0), Num(-15), Inf(1),
    Str(<<>>), Str(<<"0">>), Str(<<"-", "4", "7">>),
    Str(<<"1", "2", "a", "b", "c">>), Str(<<"a", "b", "c">>),
    Str(InfinityChars) }

FieldsFull ==
  [NoFields EXCEPT !["numero"] = Str(<<"1", "2", "3">>),
                   !["linha"] = Str(<<"2", "2", "0", "7">>),
                   !["direcao"] = Num(90),
                   !["horario"] = Str(<<"9", "h">>)]
\* numero, linha and direcao present with the values null, '' and 0
FieldsFalsy ==
  [NoFields EXCEPT !["numero"] = Null, !["linha"] = Str(<<>>), !["direcao"] = Num(0)]
\* numero and linha given as numbers, direcao as a string
FieldsOtherTypes ==
  [NoFields EXCEPT !["numero"] = Num(123), !["linha"] = Num(2207),
                   !["direcao"] = Str(<<"9", "0">>)]
\* latitude and longitude also at the top level of the vehicle
FieldsTopLevelCoords ==
  [NoFields EXCEPT !["numero"] = Str(<<"7">>), !["latitude"] = Str(<<"1">>),
                   !["longitude"] = Num(2)]
\* a raw key with the name of a computed one
FieldsCollide ==
  [NoFields EXCEPT !["numero"] = Str(<<"7">>), !["GPS_Latitude"] = Str(<<"a", "b", "c">>)]

FieldMaps ==
  {NoFields, FieldsFull, FieldsFalsy, FieldsOtherTypes, FieldsTopLevelCoords, FieldsCollide}

Vehicles ==
  {Vehicle("obj", lat, lng, f) : lat \in CoordValues, lng \in CoordValues, f \in FieldMaps}
    \cup {Vehicle(loc, Undef, Undef, f) : loc \in {"absent", "null"}, f \in FieldMaps}
    \cup {NullVehicle}

\* records for applyFilters: the k-th record of a list has numero k, so
\* that the records of one list are all different
LineValues ==
  { Str(<<"2", "2", "0", "7">>), Str(<<"1", "8", "0", ".", "1">>),
    Str(<<"2", "2", "0", "9">>), Str(<<"9", "9", "9">>), Num(2207), Str(<<>>) }

LineRecord(linha, k) ==
  [NoRecord EXCEPT !["GPS_Latitude"] = Num(-15), !["GPS_Longitude"] = Num(-47),
                   !["numero"] = Num(k), !["linha"] = linha, !["direcao"] = Num(0)]

RecordLists ==
  UNION { { [k \in 1..n |-> LineRecord(lines[k], k)] : lines \in [1..n -> LineValues] }
          : n \in 0..MaxList }

VehicleOffList ==
  Vehicle("obj", Num(1), Num(2),
          [NoFields EXCEPT !["numero"] = Str(<<"5">>), !["linha"] = Str(<<"9", "9", "9">>)])
BodyLines == ArrayBody(<<Operadora(<<VehicleA, VehicleOffList>>), Operadora(<<VehicleB>>)>>)
NumberBody == [kind |-> "num", ops |-> <<>>]
ObjectBody == [kind |-> "obj", ops |-> <<>>]

AllBodies ==
  Bodies \cup { BodyLines, NumberBody, ObjectBody, StringBody(0),
                ArrayBody(<<PrimEntry, PrimEntry>>), ArrayBody(<<NullEntry>>),
                ArrayBody(<<Operadora(<<VehicleA, NullVehicle>>)>>) }

Calls ==
  {[NoCall EXCEPT !.fn = "processData", !.vehicle = v] : v \in Vehicles}
    \cup {[NoCall EXCEPT !.fn = "applyFilters", !.data = d] : d \in RecordLists}
    \cup {[NoCall EXCEPT !.fn = "getData", !.body = b] : b \in AllBodies}

PureInit ==
  /\ variant = "pure"
  /\ now = StartNow
  /\ cache = DataCache(DefaultCacheSeconds)
  /\ minv = [i \in Inv |-> NewInv]
  /\ mhist = [by |-> 0, at |-> 0, last |-> Nothing, sent |-> 0]
  /\ redis = FALSE
  /\ rkey = NoKey
  /\ rinv = [i \in Inv |-> NewInv]
  /\ rhist = [by |-> 0, at |-> 0, last |-> Nothing, sent |-> 0, faults |-> 0]
  /\ call \in Calls

program == <<variant, now, cache, minv, mhist, redis, rkey, rinv, rhist>>

CallProcessData ==
  /\ call.fn = "processData" /\ ~call.returned
  /\ call' = [call EXCEPT !.returned = TRUE, !.rec = processData(call.vehicle)]
  /\ UNCHANGED program

CallApplyFilters ==
  /\ call.fn = "applyFilters" /\ ~call.returned
  /\ call' = [call EXCEPT !.returned = TRUE,
                          !.out = [ok |-> TRUE, data |-> applyFilters(call.data)]]
  /\ UNCHANGED program

\* the processing of getData alone: from the body to the list that is
\* stored and returned
CallProcessBody ==
  /\ call.fn = "getData" /\ ~call.returned
  /\ call' = [call EXCEPT !.returned = TRUE, !.out = ProcessBody(call.body)]
  /\ UNCHANGED program

PureNext ==
  \/ CallProcessData
  \/ CallApplyFilters
  \/ CallProcessBody

PureSpec == PureInit /\ [][PureNext]_vars

(***************************************************************************)
(* Properties                                                              *)
(***************************************************************************)
FailKinds == {"transport", "http", "decode"}

\* C1: a getData invocation that finds the cache fresh (in memory: data is
\* not null and now - timestamp < cacheDuration; Redis: the GET returns the
\* key) ends at once with the cached value, having issued no upstream
\* request, run no processing and written nothing to the cache, whatever
\* the other invocations are doing.
C1_FreshCacheIsServed ==
  [][\A i \in Inv :
       /\ (/\ minv[i].pc = "idle" /\ minv'[i].pc # "idle"
           /\ cache.data.set /\ now - cache.timestamp < cache.cacheDuration)
          => /\ minv'[i].pc = "done"
             /\ minv'[i].out = Returned(cache.data.v)
             /\ minv'[i].reqs = 0 /\ minv'[i].norms = 0 /\ minv'[i].writes = 0
             /\ cache' = cache /\ mhist'.sent = mhist.sent
       /\ (/\ rinv[i].pc = "get" /\ rinv'[i].pc \in {"fetch", "done"}
           /\ rkey.present)
          => /\ rinv'[i].pc = "done"
             /\ rinv'[i].out = Returned(rkey.value.text)
             /\ rinv'[i].reqs = 0 /\ rinv'[i].norms = 0 /\ rinv'[i].writes = 0
             /\ rkey' = rkey /\ rhist'.sent = rhist.sent]_vars

\* C1 witness: the in-memory variant served a request from the cache, some
\* time after the write
C1_Witness ==
  \E i \in Inv : /\ minv[i].pc = "done" /\ minv[i].hit /\ minv[i].reqs = 0
                 /\ now > cache.timestamp

\* C2 (as claimed): once a cycle has succeeded, an invocation whose upstream
\* fetch fails returns the records of the most recent successful cycle,
\* however old they are (Redis itself never failing).
C2_StaleFallbackAlways ==
  [][\A i \in Inv :
       /\ (/\ minv[i].pc = "fetch" /\ minv'[i].pc = "done"
           /\ minv'[i].up \in FailKinds /\ mhist.last.set)
          => minv'[i].out = Returned(mhist.last.v)
       /\ (/\ rinv[i].pc # "done" /\ rinv'[i].pc = "done"
           /\ rinv'[i].up \in FailKinds /\ rhist.last.set /\ rhist'.faults = 0)
          => rinv'[i].out = Returned(JSONparse(JSONstringify(rhist.last.v)))]_vars

\* C3 (as claimed): once written, the cache slot is never absent again
C3_SlotNeverAbsentAgain ==
  [][/\ cache.data.set => cache'.data.set
     /\ rkey.present => rkey'.present]_vars

\* C4: an invocation whose upstream fetch fails while no cycle has ever
\* succeeded throws: it returns no records (no empty or partial list), and
\* the handler sends no record list.
C4_ColdStartFailureThrows ==
  \A i \in Inv :
    /\ (minv[i].pc = "done" /\ minv[i].up \in FailKinds /\ ~mhist.last.set)
       => /\ minv[i].out.kind = "throw" /\ minv[i].out.data = <<>>
          /\ minv[i].out.err.kind = minv[i].up
          /\ minv[i].resp.status # 200
    /\ (rinv[i].pc = "done" /\ rinv[i].up \in FailKinds /\ ~rhist.last.set)
       => /\ rinv[i].out.kind = "throw" /\ rinv[i].out.data = <<>>
          /\ rinv[i].out.err.kind = rinv[i].up
          /\ rinv[i].resp.status # 200

\* C4 witness: the first request of the in-memory variant failed upstream
\* with an empty cache and threw
C4_Witness ==
  \E i \in Inv : /\ minv[i].pc = "done" /\ minv[i].up \in FailKinds
                 /\ ~mhist.last.set /\ minv[i].out.kind = "throw"

\* C5 (as claimed): when a call wrote the cache and returned, and a second
\* call then checks the cache inside the freshness window of that write
\* (the value still being that write's), both calls return identical
\* results and the two calls issue exactly one upstream request in total.
C5_SecondCallIdentical ==
  \A a, b \in Inv :
    /\ (/\ minv[a].pc = "done" /\ minv[a].writes = 1
        /\ minv[b].pc = "done" /\ minv[b].freshOf = a)
       => /\ minv[b].out = minv[a].out
          /\ minv[a].reqs + minv[b].reqs = 1
    /\ (/\ rinv[a].pc = "done" /\ rinv[a].writes = 1
        /\ rinv[b].pc = "done" /\ rinv[b].freshOf = a)
       => /\ rinv[b].out = rinv[a].out
          /\ rinv[a].reqs + rinv[b].reqs = 1

RECURSIVE SumOver(_, _)
SumOver(f, S) ==
  IF S = {} THEN 0
  ELSE LET x == CHOOSE y \in S : TRUE IN f[x] + SumOver(f, S \ {x})

\* C6: every invocation issues at most one upstream request, whether it
\* succeeds or fails, and no request is issued outside an invocation: the
\* requests the upstream has received are those of the invocations, and
\* they are at most as many as the invocations started.
C6_AtMostOneRequestPerInvocation ==
  /\ \A i \in Inv :
       /\ minv[i].reqs <= 1 /\ rinv[i].reqs <= 1
       /\ minv[i].pc = "idle" => minv[i].reqs = 0
       /\ rinv[i].pc = "idle" => rinv[i].reqs = 0
  /\ mhist.sent = SumOver([i \in Inv |-> minv[i].reqs], Inv)
  /\ rhist.sent = SumOver([i \in Inv |-> rinv[i].reqs], Inv)
  /\ mhist.sent <= Cardinality({i \in Inv : minv[i].pc # "idle"})
  /\ rhist.sent <= Cardinality({i \in Inv : rinv[i].pc # "idle"})

\* C6 witness: a request of the Redis variant whose upstream request failed
\* has finished, with that single request issued
C6_Witness ==
  \E i \in Inv : /\ rinv[i].pc = "done" /\ rinv[i].up \in FailKinds
                 /\ rinv[i].reqs = 1 /\ rhist.sent = 1

\* C7: wherever another invocation can run, the data and the timestamp of
\* the cache slot belong to the same write, the most recent one, and the
\* data is the whole record list of that write: in memory data and
\* timestamp, in Redis the value and its expiry.
C7_SlotIsOneWrite ==
  /\ cache.data.set = mhist.last.set
  /\ cache.data.set => /\ cache.data.v = mhist.last.v
                       /\ cache.timestamp = mhist.at
                       /\ \E b \in Bodies : ProcessBody(b) = [ok |-> TRUE, data |-> cache.data.v]
  /\ rkey.present => /\ rkey.value = JSONstringify(rhist.last.v)
                     /\ rkey.expireAt = rhist.at + CACHE_DURATION * 1000
                     /\ \E b \in Bodies :
                          ProcessBody(b) = [ok |-> TRUE, data |-> rhist.last.v]

\* C7 witness: in the in-memory variant a second write has replaced the
\* first, at a later time and with other records
C7_Witness ==
  \E i, j \in Inv : /\ minv[i].writes = 1 /\ minv[j].writes = 1
                    /\ mhist.by = j /\ minv[i].out.data # minv[j].out.data
                    /\ cache.timestamp > StartNow

\* C8: upstream calls are not deduplicated.  An invocation that finds the
\* cache not fresh issues its own request whatever is in flight, and an
\* invocation whose request and processing succeed writes the cache
\* (in the Redis variant: unless a Redis command failed).
C8_NoDeduplication ==
  [][\A i \in Inv :
       /\ (/\ minv[i].pc = "idle" /\ minv'[i].pc # "idle"
           /\ ~(cache.data.set /\ now - cache.timestamp < cache.cacheDuration))
          => /\ minv'[i].pc = "fetch" /\ minv'[i].reqs = 1
             /\ mhist'.sent = mhist.sent + 1
       /\ (rinv[i].pc = "get" /\ rinv'[i].pc \in {"fetch", "done"} /\ ~rkey.present)
          => /\ rinv'[i].pc = "fetch" /\ rinv'[i].reqs = 1
             /\ rhist'.sent = rhist.sent + 1
       /\ (minv[i].pc = "fetch" /\ minv'[i].up = "ok")
          => /\ minv'[i].writes = 1 /\ mhist'.by = i
             /\ cache'.data = Some(minv'[i].out.data)
       /\ (/\ rinv[i].pc # "done" /\ rinv'[i].pc = "done"
           /\ rinv'[i].up = "ok" /\ rhist'.faults = 0)
          => /\ rinv'[i].writes = 1 /\ rhist'.by = i
             /\ rkey'.value = JSONstringify(rinv'[i].out.data)]_vars

\* C8 witness: every request of the in-memory variant missed, the later one
\* while the earlier request was in flight, and each has written the cache
C8_Witness ==
  /\ \A i \in Inv : minv[i].pc = "done" /\ minv[i].reqs = 1 /\ minv[i].writes = 1
  /\ \E i \in Inv : minv[i].inflight = NumInv - 1
  /\ mhist.sent = NumInv

\* C9 (as claimed): under the same arrivals, clock and upstream outcomes,
\* and with the same freshness window, the two variants are at the same
\* point of every request, have issued the same upstream requests and have
\* produced the same results (the same records once serialised, or a
\* failure in both).
C9_BackendsAgree ==
  (variant = "pair" /\ Quiescent)
    => \A i \in Inv :
         /\ minv[i].pc = rinv[i].pc
         /\ minv[i].reqs = rinv[i].reqs
         /\ minv[i].out.kind = rinv[i].out.kind
         /\ JSONstringify(minv[i].out.data) = JSONstringify(rinv[i].out.data)

IsNumeral(chars) ==
  LET rest == IF chars # <<>> /\ Head(chars) \in {"-", "+"} THEN Tail(chars) ELSE chars
  IN  rest # <<>> /\ \A k \in 1..Len(rest) : rest[k] \in Digits

NumeralValue(chars) ==
  LET neg == Head(chars) = "-"
      rest == IF Head(chars) \in {"-", "+"} THEN Tail(chars) ELSE chars
  IN  Num((IF neg THEN -1 ELSE 1) * DecValue(rest, 0))

\* a valid numeric coordinate: a finite number, or a numeric string
ValidCoord(v) == v.t = "num" \/ (v.t = "str" /\ IsNumeral(v.s))

CoordAsNumber(v) == IF v.t = "num" THEN v ELSE NumeralValue(v.s)

PassThroughKeys == FieldKeys \ {"latitude", "longitude"}

\* C11 (as claimed): for every raw vehicle whose localizacao carries a valid
\* numeric latitude and longitude, as numbers or as numeric strings, 0 and
\* "0" included, processData returns a record, never null, whose coordinate
\* fields are those values as numbers and in which every other raw key
\* except the top-level latitude/longitude has its original value (raw
\* vehicles with a key named like a coordinate field are left aside).
C11_ValidVehicleNormalized ==
  (/\ call.fn = "processData" /\ call.returned
   /\ call.vehicle.kind = "obj" /\ call.vehicle.loc = "obj"
   /\ ValidCoord(call.vehicle.lat) /\ ValidCoord(call.vehicle.lng)
   /\ call.vehicle.f["GPS_Latitude"] = Undef)
    => /\ call.rec.tag = "rec"
       /\ call.rec.r["GPS_Latitude"] = CoordAsNumber(call.vehicle.lat)
       /\ call.rec.r["GPS_Longitude"] = CoordAsNumber(call.vehicle.lng)
       /\ \A k \in PassThroughKeys :
            call.vehicle.f[k] # Undef => call.rec.r[k] = call.vehicle.f[k]
       /\ \A k \in {"latitude", "longitude"} : k \notin DOMAIN call.rec.r

\* a coordinate the claim calls absent, empty or not a number: no value, the
\* empty string, or a string that is neither a numeral nor a spelling of
\* infinity (strings with a numeric prefix such as "12abc" included)
IsInfinityLiteral(chars) ==
  LET rest == IF chars # <<>> /\ Head(chars) \in {"-", "+"} THEN Tail(chars) ELSE chars
  IN  rest = InfinityChars

BadCoord(v) ==
  \/ v.t \in {"undef", "null"}
  \/ v.t = "str" /\ ~IsNumeral(v.s) /\ ~IsInfinityLiteral(v.s)

\* C12 (as claimed): for every raw vehicle that has no localizacao object,
\* or whose latitude or longitude is absent, an empty string or a string
\* that is not a number ("12abc" included), processData returns null.
C12_BadVehicleRejected ==
  (/\ call.fn = "processData" /\ call.returned /\ call.vehicle.kind = "obj"
   /\ \/ call.vehicle.loc # "obj"
      \/ BadCoord(call.vehicle.lat)
      \/ BadCoord(call.vehicle.lng))
    => call.rec.tag = "null"

(***************************************************************************)
(* Properties of getData (Spec), continued                                 *)
(***************************************************************************)
\* a record of the result whose two coordinates are finite numbers
FiniteCoords(rec) == rec["GPS_Latitude"].t = "num" /\ rec["GPS_Longitude"].t = "num"

AllFinite(data) == \A k \in 1..Len(data) : FiniteCoords(data[k])

\* C13 (as claimed): every element of the cached record list and of every
\* list getData returned is a record whose latitude and longitude are
\* finite numbers (never null, NaN or an infinity), also when the upstream
\* payload carries the coordinate "Infinity".
C13_CoordinatesFinite ==
  /\ cache.data.set => AllFinite(cache.data.v)
  /\ rkey.present => AllFinite(JSONparse(rkey.value))
  /\ \A i \in Inv :
       /\ minv[i].out.kind = "value" => AllFinite(minv[i].out.data)
       /\ rinv[i].out.kind = "value" => AllFinite(rinv[i].out.data)

(***************************************************************************)
(* Properties of the pure functions (PureSpec), continued                  *)
(***************************************************************************)
\* the j-th smallest element of a set of positions
NthOf(S, j) == CHOOSE k \in S : Cardinality({m \in S : m < k}) = j - 1

\* out is the list of the elements of seq at the positions in keep, in order
IsSelection(out, seq, keep) ==
  /\ Len(out) = Cardinality(keep)
  /\ \A j \in 1..Len(out) : out[j] = seq[NthOf(keep, j)]

LinesOf(data) == [k \in 1..Len(data) |-> data[k]["linha"]]

\* the vehicles of a body in order: operator by operator
RECURSIVE VehiclesOf(_)
VehiclesOf(ops) ==
  IF ops = <<>> THEN <<>>
  ELSE (IF Head(ops).veic = "array" THEN Head(ops).vs ELSE <<>>) \o VehiclesOf(Tail(ops))

\* the general part of C14: applyFilters returns exactly the input records
\* whose linha is in the allow-list, in their original relative order; with
\* FILTER false the list getData builds is the unfiltered normalized list,
\* one record for each vehicle processData accepted, in payload order
FilterSelects ==
  (call.fn = "applyFilters" /\ call.returned)
    => IsSelection(call.out.data, call.data,
                   {k \in 1..Len(call.data) : call.data[k]["linha"] \in allowedLines})

UnfilteredWhenOff ==
  (call.fn = "getData" /\ call.returned /\ call.out.ok)
    => LET vs == VehiclesOf(call.body.ops)
           recs == [k \in 1..Len(vs) |-> processData(vs[k])]
       IN  /\ ~FILTER
           /\ IsSelection(call.out.data, [k \in 1..Len(vs) |-> recs[k].r],
                          {k \in 1..Len(vs) : recs[k].tag = "rec"})

Lines2207_1801_2209 ==
  << Str(<<"2", "2", "0", "7">>), Str(<<"1", "8", "0", ".", "1">>),
     Str(<<"2", "2", "0", "9">>) >>

Lines2207_999_2209 ==
  << Str(<<"2", "2", "0", "7">>), Str(<<"9", "9", "9">>), Str(<<"2", "2", "0", "9">>) >>

C15_MalformedBodyFails ==
  \A i \in Inv :
    /\ minv[i].shape = "other"
         => /\ minv[i].up = "type" /\ minv[i].writes = 0
            /\ minv[i].out.kind = "value" => mhist.last.set
    /\ rinv[i].shape = "other"
         => /\ rinv[i].up = "type" /\ rinv[i].writes = 0 /\ rinv[i].pc # "setex"
            /\ rinv[i].out.kind = "value" => rhist.last.set

AllFail == FailKinds \cup {"type"}

\* C16: a getData cycle that fails (the fetch rejects, the status is not
\* ok, the body is not JSON, or the processing throws) leaves the cache
\* slot as it was, records and timestamp/expiry alike: the step in which
\* its failure is handled, and every later step of that invocation, changes
\* nothing of the slot, and the slot is written only in a step in which an
\* invocation whose fetch and processing succeeded finishes its write.
C16_FailedCycleLeavesCache ==
  [][/\ \A i \in Inv :
          /\ (minv'[i] # minv[i] /\ minv'[i].up \in AllFail)
               => cache' = cache /\ mhist'.at = mhist.at
          /\ (rinv'[i] # rinv[i] /\ rinv'[i].up \in AllFail)
               => rkey' = rkey /\ rhist'.at = rhist.at
     /\ cache' # cache
          => \E i \in Inv : /\ minv[i].pc = "fetch" /\ minv'[i].up = "ok"
                            /\ minv'[i].writes = minv[i].writes + 1
     /\ (rkey' # rkey /\ rkey'.present)
          => \E i \in Inv : /\ rinv[i].pc = "setex" /\ rinv[i].up = "ok"
                            /\ rinv'[i].writes = rinv[i].writes + 1]_vars

\* C16 witness: in the in-memory variant a request failed after the window
\* of an earlier write had passed and was served the stale records, and the
\* slot still carries the time of that write
C16_Witness ==
  \E i, j \in Inv : /\ minv[i].pc = "done" /\ minv[i].up \in AllFail
                    /\ minv[i].out.kind = "value" /\ mhist.by = j /\ j # i
                    /\ now - cache.timestamp >= cache.cacheDuration
                    /\ cache.timestamp = mhist.at

\* C17: in the Redis variant, when the primary path has failed and the
\* fallback's own use of Redis fails (the connect or the get of the catch
\* block), that failure is swallowed: getData ends by throwing the error
\* that sent it to the catch block, which for a failed upstream request or
\* processing is that error and not the Redis one, and it returns no value.
C17_FallbackErrorSwallowed ==
  [][\A i \in Inv :
       (/\ rinv[i].pc \in {"cinit", "cget"}
        /\ rinv'[i] # rinv[i] /\ rhist'.faults = rhist.faults + 1)
         => /\ rinv'[i].pc = "done"
            /\ rinv'[i].out = Thrown(rinv[i].err)
            /\ rinv'[i].out.data = <<>>
            /\ rinv'[i].up \in AllFail
                 => /\ rinv'[i].out.err.kind = rinv'[i].up
                    /\ rinv'[i].out.err # RedisError
            /\ rinv'[i].resp = SendError(502, rinv[i].err)]_vars

\* C17 witness: a request whose upstream request failed has thrown that
\* error although the key held a value: the read of the catch block failed
C17_Witness ==
  \E i \in Inv : /\ rinv[i].pc = "done" /\ rinv[i].up \in FailKinds
                 /\ rinv[i].out.kind = "throw" /\ rinv[i].out.err.kind = rinv[i].up
                 /\ rkey.present /\ rhist.faults = 1

(***************************************************************************)
(* Properties of the pure functions (PureSpec), continued                  *)
(***************************************************************************)
\* C18 (as claimed): every record processData produces has a numero that is
\* a string, a linha that is a string and a direcao that is a number; when
\* the raw numero, linha or direcao is missing or present with a falsy
\* value, the field is the default ('' , '' , 0): the copy of the raw keys
\* never puts the raw falsy value in its place.
C18_FixedFieldDefaults ==
  (call.fn = "processData" /\ call.returned /\ call.rec.tag = "rec")
    => /\ call.rec.r["numero"].t = "str"
       /\ call.rec.r["linha"].t = "str"
       /\ call.rec.r["direcao"].t = "num"
       /\ ~Truthy(call.vehicle.f["numero"]) => call.rec.r["numero"] = Str(<<>>)
       /\ ~Truthy(call.vehicle.f["linha"]) => call.rec.r["linha"] = Str(<<>>)
       /\ ~Truthy(call.vehicle.f["direcao"]) => call.rec.r["direcao"] = Num(0)

(***************************************************************************)
(* Properties of getData (Spec), continued                                 *)
(***************************************************************************)
\* C19 (as claimed): results never go backwards under concurrent misses: a
\* fetch that was issued earlier and answered later never overwrites the
\* cache slot written by a fetch that was issued after it and finished
\* first.
C19_NoOlderOverwrite ==
  [][\A i, j \in Inv :
       /\ (/\ minv[i].pc = "fetch" /\ minv'[i].writes = minv[i].writes + 1
           /\ cache.data.set /\ mhist.by = j)
            => minv[i].reqNo > minv[j].reqNo
       /\ (/\ rinv[i].pc = "setex" /\ rinv'[i].writes = rinv[i].writes + 1
           /\ rkey.present /\ rhist.by = j)
            => rinv[i].reqNo > rinv[j].reqNo]_vars

\* C20 (as claimed): in the Redis variant a failure of Redis (connecting,
\* the first get, or the setEx) never turns a request whose upstream was
\* healthy into a failed one and never prevents the upstream from being
\* tried: an invocation that has ended either was served from the cache or
\* has issued its upstream request, and one whose fetch and processing
\* succeeded has returned the records it processed.
C20_RedisFailureHarmless ==
  \A i \in Inv :
    rinv[i].pc = "done"
      => /\ rinv[i].hit \/ rinv[i].reqs = 1
         /\ rinv[i].up = "ok" => rinv[i].out = Returned(rinv[i].pending)

====
